---- MODULE Spec2Model ----
(***************************************************************************)
(* ClimaGrid backend (climagrid-backend/main.py): the forecast fetcher,    *)
(* the in-memory observation store and the request handlers around them.   *)
(*                                                                         *)
(* Time is counted in whole hours.  A datetime is a record                 *)
(* [aware |-> BOOLEAN, t |-> hour]: `aware` tells whether the value        *)
(* carries a UTC offset (tzinfo), `t` is the instant it denotes in UTC.    *)
(* Python refuses to order an offset-aware against an offset-naive         *)
(* datetime (TypeError), which the comparisons below reproduce.            *)
(* Distances are in metres.                                                *)
(***************************************************************************)
EXTENDS Integers, Sequences, FiniteSets, TLC

VARIABLES
  now,                \* the server clock (what datetime.utcnow() reads), in hours
  USER_OBSERVATIONS,  \* the process-wide list of ObservationRecord
  accepted,           \* number of POST /observations requests that returned a record
  upstream,           \* SpecFetch: the upstream forecast response being processed
  req,                \* the GET /timeseries request suspended at the forecast call
  resp                \* the response of the last request (or call) that finished

vars == <<now, USER_OBSERVATIONS, accepted, upstream, req, resp>>

-----------------------------------------------------------------------------
(* Bounds of the model *)

MaxLen == 3          \* longest upstream array
MaxInstant == 3      \* latest hour an upstream timestamp names
MaxHours == 2        \* largest small horizon (besides the default of 24)
MaxClock == 2        \* the server clock stops ticking here
MaxStore == 2        \* most records the store is filled with

(* Program constants *)

DefaultHours == 24          \* GET /timeseries: hours = Query(24, ...)
ListRadiusM == 100000       \* GET /observations: radius_km = Query(100.0, ...)
DefaultRadiusM == 75000     \* _filter_user_observations: radius_km = 75.0
MinRadiusM == 100           \* GET /observations: radius_km >= 0.1

\* A JSON value of the upstream array: null (Python None) or a number.
Null == [null |-> TRUE, num |-> 0]
Num(n) == [null |-> FALSE, num |-> n]

\* float(raw_value) of a JSON number
Float(v) == v.num

Min(a, b) == IF a < b THEN a ELSE b

-----------------------------------------------------------------------------
(* datetime *)

Naive(t) == [aware |-> FALSE, t |-> t]
Aware(t) == [aware |-> TRUE, t |-> t]

\* datetime.utcnow(): an offset-naive datetime holding the UTC wall clock.
UtcNow(clock) == Naive(clock)

\* a + timedelta(hours=h): keeps the tzinfo of a.
PlusHours(a, h) == [aware |-> a.aware, t |-> a.t + h]

\* a < b and a > b raise TypeError unless both or neither carry an offset.
Comparable(a, b) == a.aware = b.aware

\* An upstream timestamp string: "naive" is "2024-01-01T00:00", "Z" is
\* "2024-01-01T00:00Z", "bad" is a string that is no ISO-8601 datetime.
\* The "Z" strings are those of hours 0 and 1, which no horizon leaves out.
RawTimes ==
  [fmt : {"naive"}, t : 0..MaxInstant] \cup [fmt : {"Z"}, t : 0..1]
    \cup {[fmt |-> "bad", t |-> 0]}

\* datetime.fromisoformat(raw_time.replace("Z", "+00:00")): "ValueError" for a
\* string it cannot parse, an aware datetime for a "Z" suffix, else a naive one.
FromIsoFormat(raw) ==
  IF raw.fmt = "bad" THEN [error |-> "ValueError", value |-> Naive(0)]
  ELSE IF raw.fmt = "Z" THEN [error |-> "none", value |-> Aware(raw.t)]
  ELSE [error |-> "none", value |-> Naive(raw.t)]

-----------------------------------------------------------------------------
(* Forecast fetcher: _fetch_hourly_data *)

\* The for loop over zip(timestamps, values), from pair i on, with the points
\* collected so far.  It ends in "done" (loop left by exhaustion or by break)
\* or in "TypeError" (ts > cutoff between an aware and a naive datetime).
\* The loop with `continue` where the code has `break`.
RECURSIVE FetchLoopNoBreak(_, _, _, _, _)
FetchLoopNoBreak(timestamps, values, cutoff, i, points) ==
  IF i > Min(Len(timestamps), Len(values))
    THEN [status |-> "done", points |-> points]
  ELSE LET parsed == FromIsoFormat(timestamps[i])
           ts == parsed.value
       IN
    IF parsed.error = "ValueError"
      THEN FetchLoopNoBreak(timestamps, values, cutoff, i + 1, points)
    ELSE IF ~Comparable(ts, cutoff)
      THEN [status |-> "TypeError", points |-> points]
    ELSE IF ts.t > cutoff.t \/ values[i] = Null
      THEN FetchLoopNoBreak(timestamps, values, cutoff, i + 1, points)
    ELSE FetchLoopNoBreak(timestamps, values, cutoff, i + 1,
                          Append(points, [timestamp |-> ts, value |-> Float(values[i])]))

RECURSIVE FetchLoop(_, _, _, _, _)
FetchLoop(timestamps, values, cutoff, i, points) ==
  IF i > Min(Len(timestamps), Len(values))
    THEN [status |-> "done", points |-> points]
  ELSE LET parsed == FromIsoFormat(timestamps[i])
           ts == parsed.value
       IN
    IF parsed.error = "ValueError"
      THEN FetchLoop(timestamps, values, cutoff, i + 1, points)
    ELSE IF ~Comparable(ts, cutoff)
      THEN [status |-> "TypeError", points |-> points]
    ELSE IF ts.t > cutoff.t
      THEN [status |-> "done", points |-> points]
    ELSE IF values[i] = Null
      THEN FetchLoop(timestamps, values, cutoff, i + 1, points)
    ELSE FetchLoop(timestamps, values, cutoff, i + 1,
                   Append(points, [timestamp |-> ts, value |-> Float(values[i])]))

\* The result without the points[:hours] cap.
TruncateNone(points, hours) == points

\* points[:hours]
Truncate(points, hours) == SubSeq(points, 1, Min(hours, Len(points)))

\* The body of _fetch_hourly_data once the upstream call has returned.
\* payload.ok = FALSE is a transport failure or a non-2xx answer.
FetchHourlyData(payload, clock, hours) ==
  IF ~payload.ok
    THEN [status |-> "http_502_upstream", points |-> <<>>]
  ELSE IF payload.time = <<>> \/ payload.values = <<>>
    THEN [status |-> "http_502_no_data", points |-> <<>>]
  ELSE LET cutoff == PlusHours(UtcNow(clock), hours)
           loop == FetchLoop(payload.time, payload.values, cutoff, 1, <<>>)
       IN IF loop.status = "TypeError"
            THEN [status |-> "TypeError", points |-> <<>>]
          ELSE IF loop.points = <<>>
            THEN [status |-> "http_404", points |-> <<>>]
          ELSE [status |-> "ok", points |-> Truncate(loop.points, hours)]

-----------------------------------------------------------------------------
(* SpecFetch: the fetcher applied to every bounded upstream response *)

NoResp == [op |-> "none"]
NoReq == [pc |-> "idle"]
NoUpstream == [payload |-> [ok |-> FALSE, time |-> <<>>, values |-> <<>>], hours |-> 1]

SeqsUpTo(S, n) == UNION {[1..k -> S] : k \in 0..n}

RawValues == {Null, Num(5)}
FetchHours == (1..MaxHours) \cup {DefaultHours}
FetchClocks == {0, 1}

Payloads ==
  [ok : {TRUE}, time : SeqsUpTo(RawTimes, MaxLen), values : SeqsUpTo(RawValues, MaxLen)]
    \cup {[ok |-> FALSE, time |-> <<>>, values |-> <<>>]}

InitFetch ==
  /\ now \in FetchClocks
  /\ USER_OBSERVATIONS = <<>>
  /\ accepted = 0
  /\ upstream \in [payload : Payloads, hours : FetchHours]
  /\ req = NoReq
  /\ resp = NoResp

\* One call of the fetcher on the response in `upstream`.
FetchHourly ==
  /\ resp = NoResp
  /\ resp' = [op |-> "fetch", at |-> now, hours |-> upstream.hours,
              out |-> FetchHourlyData(upstream.payload, now, upstream.hours)]
  /\ UNCHANGED <<now, USER_OBSERVATIONS, accepted, upstream, req>>

NextFetch == FetchHourly

SpecFetch == InitFetch /\ [][NextFetch]_vars

-----------------------------------------------------------------------------
(* Geo distance calculator *)

\* The coordinates of the model, as <<latitude, longitude>> in whole degrees.
P1 == <<40, -74>>
P2 == <<40, -73>>
P3 == <<10, 10>>

\* _haversine_distance_km on the coordinates of the model, in metres rounded
\* down: the values the Python function returns (0.0 for coincident points,
\* 85.1798 km, 8786.5613 km and 8701.5485 km for the three pairs).
HaversineM(lat1, lon1, lat2, lon2) ==
  LET a == <<lat1, lon1>>
      b == <<lat2, lon2>>
  IN IF a = b THEN 0
     ELSE IF {a, b} = {P1, P2} THEN 85179
     ELSE IF {a, b} = {P1, P3} THEN 8786561
     ELSE 8701548

-----------------------------------------------------------------------------
(* Observation store: USER_OBSERVATIONS and _filter_user_observations *)

\* Optional[...] request parameters
None == [some |-> FALSE, v |-> 0]
Some(x) == [some |-> TRUE, v |-> x]
NoMetric == "None"
NoTimestamp == [some |-> FALSE, v |-> Naive(0)]

\* `metric and obs.metric != metric`
MetricMismatch(metric, obs) == metric # NoMetric /\ obs.metric # metric

\* sorted(matches, key=lambda item: item.timestamp) as a stable insertion:
\* `obs` goes behind every element whose timestamp is not later than its own.
\* An insertion that is not stable: `obs` goes in front of its equals.
InsertTiesFirst(sorted, obs) ==
  LET k == Cardinality({j \in 1..Len(sorted) : sorted[j].timestamp.t < obs.timestamp.t})
  IN SubSeq(sorted, 1, k) \o <<obs>> \o SubSeq(sorted, k + 1, Len(sorted))

InsertByTimestamp(sorted, obs) ==
  LET k == Cardinality({j \in 1..Len(sorted) : sorted[j].timestamp.t <= obs.timestamp.t})
  IN SubSeq(sorted, 1, k) \o <<obs>> \o SubSeq(sorted, k + 1, Len(sorted))

RECURSIVE SortLoop(_, _, _)
SortLoop(items, i, sorted) ==
  IF i > Len(items) THEN sorted
  ELSE SortLoop(items, i + 1, InsertByTimestamp(sorted, items[i]))

\* sorted(...) raises TypeError when the keys mix aware and naive datetimes.
SortedByTimestamp(items) ==
  IF \E i, j \in 1..Len(items) : ~Comparable(items[i].timestamp, items[j].timestamp)
    THEN [status |-> "TypeError", result |-> <<>>]
  ELSE [status |-> "ok", result |-> SortLoop(items, 1, <<>>)]

\* The for loop of _filter_user_observations from record i on.
RECURSIVE FilterLoop(_, _, _, _, _, _, _, _)
FilterLoop(store, i, latitude, longitude, metric, cutoff, radius, matches) ==
  IF i > Len(store) THEN [status |-> "done", matches |-> matches]
  ELSE LET obs == store[i] IN
    IF MetricMismatch(metric, obs)
      THEN FilterLoop(store, i + 1, latitude, longitude, metric, cutoff, radius, matches)
    ELSE IF ~Comparable(obs.timestamp, cutoff)
      THEN [status |-> "TypeError", matches |-> matches]
    ELSE IF obs.timestamp.t < cutoff.t
      THEN FilterLoop(store, i + 1, latitude, longitude, metric, cutoff, radius, matches)
    ELSE IF HaversineM(latitude, longitude, obs.latitude, obs.longitude) > radius
      THEN FilterLoop(store, i + 1, latitude, longitude, metric, cutoff, radius, matches)
    ELSE FilterLoop(store, i + 1, latitude, longitude, metric, cutoff, radius,
                    Append(matches, obs))

\* _filter_user_observations(latitude, longitude, metric, hours, radius_km)
\* on the store as it is when the call runs, with the clock reading `clock`.
FilterUserObservations(store, latitude, longitude, metric, hours, radius, clock) ==
  LET cutoff == PlusHours(UtcNow(clock), 0 - hours)
      loop == FilterLoop(store, 1, latitude, longitude, metric, cutoff, radius, <<>>)
  IN IF loop.status = "TypeError"
       THEN [status |-> "TypeError", result |-> <<>>]
     ELSE SortedByTimestamp(loop.matches)

\* The for loop of list_observations over `data` from record i on.
RECURSIVE ListLoop(_, _, _, _, _, _, _, _)
ListLoop(data, i, latitude, longitude, metric, cutoff, radius, filtered) ==
  IF i > Len(data) THEN [status |-> "done", matches |-> filtered]
  ELSE LET obs == data[i] IN
    IF MetricMismatch(metric, obs)
      THEN ListLoop(data, i + 1, latitude, longitude, metric, cutoff, radius, filtered)
    ELSE IF ~Comparable(obs.timestamp, cutoff)
      THEN [status |-> "TypeError", matches |-> filtered]
    ELSE IF obs.timestamp.t < cutoff.t
      THEN ListLoop(data, i + 1, latitude, longitude, metric, cutoff, radius, filtered)
    ELSE IF /\ latitude.some /\ longitude.some
            /\ HaversineM(latitude.v, longitude.v, obs.latitude, obs.longitude) > radius
      THEN ListLoop(data, i + 1, latitude, longitude, metric, cutoff, radius, filtered)
    ELSE ListLoop(data, i + 1, latitude, longitude, metric, cutoff, radius,
                  Append(filtered, obs))

\* The body of list_observations.  The clock is read once inside
\* _filter_user_observations (when a center is given) and once more for the
\* handler's own cutoff: `clock1` and `clock2`.
ListObservationsBody(store, metric, latitude, longitude, radius, hours, clock1, clock2) ==
  LET first ==
        IF ~latitude.some \/ ~longitude.some
          THEN [status |-> "ok", result |-> store]
        ELSE FilterUserObservations(store, latitude.v, longitude.v, metric, hours,
                                    radius, clock1)
      cutoff == PlusHours(UtcNow(clock2), 0 - hours)
      loop == ListLoop(first.result, 1, latitude, longitude, metric, cutoff, radius, <<>>)
  IN IF first.status = "TypeError" \/ loop.status = "TypeError"
       THEN [status |-> "TypeError", result |-> <<>>]
     ELSE SortedByTimestamp(loop.matches)

\* timeseries, once _fetch_hourly_data has the upstream response: the series,
\* then (include_user_observations) the store query with the default radius.
\* An exception of either call ends the request with that status.
TimeseriesBody(store, payload, metric, latitude, longitude, hours, include, clock) ==
  LET series == FetchHourlyData(payload, clock, hours)
      obs == FilterUserObservations(store, latitude, longitude, metric, hours,
                                    DefaultRadiusM, clock)
  IN IF series.status # "ok"
       THEN [status |-> series.status, points |-> <<>>, user_observations |-> <<>>]
     ELSE IF ~include
       THEN [status |-> "ok", points |-> series.points, user_observations |-> <<>>]
     ELSE IF obs.status # "ok"
       THEN [status |-> obs.status, points |-> <<>>, user_observations |-> <<>>]
     ELSE [status |-> "ok", points |-> series.points, user_observations |-> obs.result]

\* A lost update: the new record takes the place of the last one.
StoreOverwrite(store, record) ==
  IF store = <<>> THEN <<record>> ELSE [store EXCEPT ![Len(store)] = record]

\* USER_OBSERVATIONS.append(record)
StoreAppend(store, record) == Append(store, record)

-----------------------------------------------------------------------------
(* Request handlers *)

\* The event loop runs one handler step at a time; the response a step
\* produced stays in `resp` until it has left the server.
Idle == resp = NoResp

Return ==
  /\ ~Idle
  /\ resp' = NoResp
  /\ upstream' = NoUpstream
  /\ UNCHANGED <<now, USER_OBSERVATIONS, accepted, req>>

\* The clock moves on between the steps of the server.
Tick ==
  /\ Idle
  /\ now < MaxClock
  /\ now' = now + 1
  /\ UNCHANGED <<USER_OBSERVATIONS, accepted, upstream, req, resp>>

\* POST /observations: add_observation.  `timestamp` is None when the body
\* leaves it out (default_factory=datetime.utcnow); uuid4() is a fresh id.
\* The record keeps the fields a query reads; value, location_name, source,
\* notes and submitted_at are stored and returned untouched.
AddObservation(timestamp, metric, latitude, longitude) ==
  /\ Idle
  /\ Len(USER_OBSERVATIONS) < MaxStore
  /\ LET record == [id |-> accepted + 1,
                    timestamp |-> IF timestamp.some THEN timestamp.v ELSE UtcNow(now),
                    metric |-> metric,
                    latitude |-> latitude,
                    longitude |-> longitude]
     IN /\ USER_OBSERVATIONS' = StoreAppend(USER_OBSERVATIONS, record)
        /\ accepted' = accepted + 1
        /\ resp' = [op |-> "post", status |-> "ok", record |-> record]
  /\ UNCHANGED <<now, upstream, req>>

\* GET /observations: list_observations.  The clock may move by `d` between
\* the two reads of it.
ListObservations(metric, latitude, longitude, radius, hours, d) ==
  /\ Idle
  /\ now + d <= MaxClock
  /\ d > 0 => latitude.some /\ longitude.some
  /\ LET out == ListObservationsBody(USER_OBSERVATIONS, metric, latitude, longitude,
                                     radius, hours, now, now + d)
     IN resp' = [op |-> "list", metric |-> metric, latitude |-> latitude,
                 longitude |-> longitude, radius |-> radius, hours |-> hours,
                 at |-> now + d, seen |-> Len(USER_OBSERVATIONS),
                 status |-> out.status, body |-> out.result]
  /\ now' = now + d
  /\ UNCHANGED <<USER_OBSERVATIONS, accepted, upstream, req>>

\* A direct query of the store: one call of _filter_user_observations.
QueryStore(latitude, longitude, metric, hours, radius) ==
  /\ Idle
  /\ LET out == FilterUserObservations(USER_OBSERVATIONS, latitude, longitude, metric,
                                       hours, radius, now)
     IN resp' = [op |-> "query", metric |-> metric, latitude |-> Some(latitude),
                 longitude |-> Some(longitude), radius |-> radius, hours |-> hours,
                 at |-> now, seen |-> Len(USER_OBSERVATIONS),
                 status |-> out.status, body |-> out.result]
  /\ UNCHANGED <<now, USER_OBSERVATIONS, accepted, upstream, req>>

-----------------------------------------------------------------------------
(* SpecStore: the observation store under appends and queries *)

PostPlaces == {<<"temperature", P1>>, <<"temperature", P2>>, <<"humidity", P1>>}
PostPoints == {P1, P2}
PostTimestamps == {NoTimestamp, Some(Naive(0)), Some(Aware(0))}

QueryMetrics == {NoMetric, "temperature"}
QueryHours == 1..MaxHours
ListRadii == {MinRadiusM, ListRadiusM}
QueryRadii == {0, DefaultRadiusM}

InitStore ==
  /\ now = 0
  /\ USER_OBSERVATIONS = <<>>
  /\ accepted = 0
  /\ upstream = NoUpstream
  /\ req = NoReq
  /\ resp = NoResp

Post ==
  \E ts \in PostTimestamps, mp \in PostPlaces :
    AddObservation(ts, mp[1], mp[2][1], mp[2][2])

List ==
  \E m \in QueryMetrics, lat \in {None, Some(40)}, lon \in {None, Some(-74), Some(-73)},
     r \in ListRadii, h \in QueryHours, d \in {0, 1} :
    ListObservations(m, lat, lon, r, h, d)

Query ==
  \E p \in PostPoints, m \in QueryMetrics, h \in QueryHours, r \in QueryRadii :
    QueryStore(p[1], p[2], m, h, r)

NextStore == Tick \/ Post \/ List \/ Query \/ Return

SpecStore == InitStore /\ [][NextStore]_vars

\* GET /timeseries up to `await client.get(...)`: the request is suspended at
\* the outbound forecast call.  `began` remembers how many records the store
\* held when the request arrived.
TimeseriesBegin(metric, latitude, longitude, hours, include) ==
  /\ Idle
  /\ req = NoReq
  /\ req' = [pc |-> "awaiting", metric |-> metric, latitude |-> latitude,
             longitude |-> longitude, hours |-> hours, include |-> include,
             began |-> Len(USER_OBSERVATIONS)]
  /\ UNCHANGED <<now, USER_OBSERVATIONS, accepted, upstream, resp>>

\* GET /timeseries from the moment the forecast call returns `payload` (or
\* fails) to the response.
TimeseriesResume(payload) ==
  /\ Idle
  /\ req # NoReq
  /\ LET out == TimeseriesBody(USER_OBSERVATIONS, payload, req.metric, req.latitude,
                               req.longitude, req.hours, req.include, now)
     IN resp' = [op |-> "timeseries", metric |-> req.metric,
                 latitude |-> Some(req.latitude), longitude |-> Some(req.longitude),
                 hours |-> req.hours, include |-> req.include,
                 radius |-> DefaultRadiusM, at |-> now, seen |-> Len(USER_OBSERVATIONS), began |-> req.began,
                 status |-> out.status, points |-> out.points,
                 body |-> out.user_observations]
  /\ upstream' = [payload |-> payload, hours |-> req.hours]
  /\ req' = NoReq
  /\ UNCHANGED <<now, USER_OBSERVATIONS, accepted>>

-----------------------------------------------------------------------------
(* SpecServer: the handlers interleaved around a suspended GET /timeseries *)

\* The upstream response of the scenario: time = ["2024-01-01T00:00Z",
\* "2024-01-01T01:00Z"], values = [5.0, null], hours = 24 (hour 0 is midnight
\* of 2024-01-01; both timestamps lie before now + 24).
ScenarioPayload ==
  [ok |-> TRUE,
   time |-> <<[fmt |-> "Z", t |-> 0], [fmt |-> "Z", t |-> 1]>>,
   values |-> <<Num(5), Null>>]

\* Upstream answers: a failure, the scenario's response, a response with
\* offset-free timestamps and values, and one whose values are all null.
ServerPayloads ==
  { [ok |-> FALSE, time |-> <<>>, values |-> <<>>],
    ScenarioPayload,
    [ok |-> TRUE, time |-> <<[fmt |-> "naive", t |-> 0], [fmt |-> "naive", t |-> 1]>>,
     values |-> <<Num(5), Num(5)>>],
    [ok |-> TRUE, time |-> <<[fmt |-> "naive", t |-> 0]>>, values |-> <<Null>>] }

ServerHours == {1, DefaultHours}

Compose ==
  \E h \in ServerHours, inc \in BOOLEAN :
    TimeseriesBegin("temperature", P1[1], P1[2], h, inc)

Forecast == \E payload \in ServerPayloads : TimeseriesResume(payload)

ListAll ==
  \E m \in QueryMetrics, r \in ListRadii :
    ListObservations(m, None, None, r, 1, 0)

NextServer == Tick \/ Post \/ ListAll \/ Compose \/ Forecast \/ Return

SpecServer == InitStore /\ [][NextServer]_vars

-----------------------------------------------------------------------------
(* The forecast fetcher's contract, stated on the upstream arrays *)

Fetched == resp.op = "fetch"
FetchedOk == Fetched /\ resp.out.status = "ok"

\* The pairs the fetcher walks over, and what each pair says.
Pairs == 1..Min(Len(upstream.payload.time), Len(upstream.payload.values))
Parses(i) == upstream.payload.time[i].fmt # "bad"
Instant(i) == upstream.payload.time[i].t
HasValue(i) == ~upstream.payload.values[i].null
Cutoff == resp.at + resp.hours
Over(i) == Parses(i) /\ Instant(i) > Cutoff

\* The pairs before the first one whose timestamp is past now + hours.
BeforeStop == {i \in Pairs : \A j \in 1..i : ~Over(j)}
\* The pairs that survive the per-pair processing.
Survivors == {i \in BeforeStop : Parses(i) /\ HasValue(i)}

\* The elements of a set of indices in increasing order.
RECURSIVE Ascending(_)
Ascending(S) ==
  IF S = {} THEN <<>>
  ELSE LET m == CHOOSE x \in S : \A y \in S : x <= y
       IN <<m>> \o Ascending(S \ {m})

PointOf(i) ==
  [timestamp |-> [aware |-> upstream.payload.time[i].fmt = "Z", t |-> Instant(i)],
   value |-> upstream.payload.values[i].num]

\* C1: a successful result of the fetcher has at most `hours` points, no
\* point later than now + hours, and no point built from a null value.
C1_BoundedWindow ==
  FetchedOk =>
    /\ Len(resp.out.points) <= resp.hours
    /\ \A k \in 1..Len(resp.out.points) :
         /\ resp.out.points[k].timestamp.t <= Cutoff
         /\ \E i \in Pairs :
              Parses(i) /\ HasValue(i) /\ resp.out.points[k] = PointOf(i)

\* C1 witness: a success on out-of-order timestamps with a null value among
\* them, where more pairs survive than `hours` and the cap cuts the result.
C1_Witness ==
  /\ FetchedOk
  /\ Cardinality(Survivors) > resp.hours
  /\ Len(resp.out.points) = resp.hours
  /\ \E i \in Pairs : ~HasValue(i)
  /\ \E i, j \in Pairs : i < j /\ Parses(i) /\ Parses(j) /\ Instant(i) > Instant(j)

\* C2: non-empty arrays of which no pair survives (all values null, say)
\* end in NoDataError (404), and a success never has an empty point sequence.
C2_NoDataError ==
  Fetched =>
    /\ resp.out.status = "ok" => resp.out.points # <<>>
    /\ ( /\ upstream.payload.ok
         /\ upstream.payload.time # <<>>
         /\ upstream.payload.values # <<>>
         /\ Survivors = {} )
       => resp.out.status = "http_404"

\* C2 without the timestamps that carry a UTC offset: the statement that the
\* fetcher does keep.
C2_NoDataErrorNaive ==
  (Fetched /\ \A i \in Pairs : upstream.payload.time[i].fmt # "Z")
     => C2_NoDataError

\* C8: pairs are processed in array order, a "Z" suffix is read as UTC and
\* an unparseable timestamp is skipped; on the scenario's response the fetch
\* succeeds with exactly the one point (00:00, 5.0).
C8_ScenarioOnePoint ==
  (Fetched /\ upstream.payload = ScenarioPayload /\ upstream.hours = DefaultHours)
    => /\ resp.out.status = "ok"
       /\ resp.out.points = <<[timestamp |-> Aware(0), value |-> 5]>>

\* C9: processing stops at the first parsed timestamp past now + hours; the
\* result is the surviving pairs of the array prefix before it, in array
\* order, capped to the first `hours` of them (and NoDataError when the
\* prefix has none).
C9_EarlyStop ==
  /\ FetchedOk =>
       resp.out.points =
         SubSeq([k \in 1..Cardinality(Survivors) |-> PointOf(Ascending(Survivors)[k])],
                1, Min(resp.hours, Cardinality(Survivors)))
  /\ (Fetched /\ resp.out.status = "http_404") => Survivors = {}

\* C9 witness: a success in which a pair after the stop position lies inside
\* the window with a value, and is dropped.
C9_Witness ==
  /\ FetchedOk
  /\ \E i \in Pairs :
       /\ i \notin BeforeStop
       /\ Parses(i) /\ HasValue(i) /\ Instant(i) <= Cutoff
       /\ \A k \in 1..Len(resp.out.points) : resp.out.points[k] # PointOf(i)

-----------------------------------------------------------------------------
(* The observation store's contract, stated on the store and the response *)

Queried == resp.op \in {"list", "query"}
QueriedOk == Queried /\ resp.status = "ok"
CenterGiven == resp.latitude.some /\ resp.longitude.some

\* The records the store held when the response was computed.
Stored == {USER_OBSERVATIONS[i] : i \in 1..resp.seen}
Arrival(r) == CHOOSE i \in 1..Len(USER_OBSERVATIONS) : USER_OBSERVATIONS[i] = r

AtCenter(r) == r.latitude = resp.latitude.v /\ r.longitude = resp.longitude.v
MetricMatches(r) == resp.metric = NoMetric \/ r.metric = resp.metric
InWindow(r) == r.timestamp.t >= resp.at - resp.hours
InBody(r) == \E k \in 1..Len(resp.body) : resp.body[k] = r

\* C3: a query centered on a stored record's own coordinate, with any radius
\* >= 0, a window covering its timestamp and a matching or absent metric,
\* includes the record; a query with radius 0 centered anywhere else excludes it.
C3_IncludedAtCenter ==
  (Queried /\ CenterGiven) =>
    \A r \in Stored :
      /\ (AtCenter(r) /\ MetricMatches(r) /\ InWindow(r)) => InBody(r)
      /\ (resp.radius = 0 /\ ~AtCenter(r)) => ~InBody(r)

\* C3 for the queries that return: what the filter does keep.
C3_IncludedWhenReturned ==
  (QueriedOk /\ CenterGiven) =>
    \A r \in Stored :
      /\ (AtCenter(r) /\ MetricMatches(r) /\ InWindow(r)) => InBody(r)
      /\ (resp.radius = 0 /\ ~AtCenter(r)) => ~InBody(r)

\* C4: every query result is in ascending timestamp order, records with equal
\* timestamps in the order they were appended.
C4_SortedStable ==
  QueriedOk =>
    \A j, k \in 1..Len(resp.body) :
      j < k =>
        \/ resp.body[j].timestamp.t < resp.body[k].timestamp.t
        \/ /\ resp.body[j].timestamp.t = resp.body[k].timestamp.t
           /\ Arrival(resp.body[j]) < Arrival(resp.body[k])

\* C4 witness: a result whose order differs from the arrival order.
C4_Witness ==
  /\ QueriedOk
  /\ \E j, k \in 1..Len(resp.body) :
       j < k /\ Arrival(resp.body[j]) > Arrival(resp.body[k])

\* C6: GET /observations without a full center returns exactly the stored
\* records that pass the metric filter and the age filter, whatever the radius.
C6_NoCenterNoDistance ==
  (resp.op = "list" /\ ~CenterGiven) =>
    /\ resp.status = "ok"
    /\ {resp.body[k] : k \in 1..Len(resp.body)}
         = {r \in Stored : MetricMatches(r) /\ InWindow(r)}
    /\ Len(resp.body) = Cardinality({r \in Stored : MetricMatches(r) /\ InWindow(r)})

\* C6 for the requests that return.
C6_NoCenterWhenReturned ==
  (resp.op = "list" /\ ~CenterGiven /\ resp.status = "ok") =>
    /\ {resp.body[k] : k \in 1..Len(resp.body)}
         = {r \in Stored : MetricMatches(r) /\ InWindow(r)}
    /\ Len(resp.body) = Cardinality({r \in Stored : MetricMatches(r) /\ InWindow(r)})

\* C10: whatever timestamps the accepted records carry (with an offset,
\* without one, or defaulted), every later query of the store completes.
C10_QueriesComplete == Queried => resp.status = "ok"

-----------------------------------------------------------------------------
(* The store and the composer under interleaved requests *)

Composed == resp.op = "timeseries" /\ resp.status = "ok"

Near(r, radius) ==
  HaversineM(resp.latitude.v, resp.longitude.v, r.latitude, r.longitude) <= radius

\* One record per accepted POST, in arrival order.
OnePerPost ==
  /\ Len(USER_OBSERVATIONS) = accepted
  /\ \A i \in 1..Len(USER_OBSERVATIONS) : USER_OBSERVATIONS[i].id = i
  /\ resp.op = "post" =>
       USER_OBSERVATIONS[Len(USER_OBSERVATIONS)] = resp.record

\* A query that returns has read every record appended before it ran: each
\* stored record that passes its filter is in its result.
ReadsWholeStore ==
  ( /\ resp.op \in {"list", "timeseries"}
    /\ resp.status = "ok"
    /\ resp.op = "timeseries" => resp.include )
  => \A i \in 1..Len(USER_OBSERVATIONS) :
       LET r == USER_OBSERVATIONS[i] IN
         ( /\ MetricMatches(r)
           /\ InWindow(r)
           /\ CenterGiven => Near(r, resp.radius) )
         => InBody(r)

\* C5: under any interleaving of POST /observations, GET /observations and
\* GET /timeseries (suspended at the forecast call or not) no append is lost:
\* the store holds exactly one record per accepted POST, it only grows, and a
\* record whose POST has completed is seen by every query that runs afterwards.
C5_NoLostAppend ==
  /\ [](OnePerPost /\ ReadsWholeStore)
  /\ [][ /\ Len(USER_OBSERVATIONS') >= Len(USER_OBSERVATIONS)
         /\ SubSeq(USER_OBSERVATIONS', 1, Len(USER_OBSERVATIONS)) = USER_OBSERVATIONS ]_vars

\* C5 witness: a GET /timeseries response that carries a record appended
\* while the request was suspended at the forecast call.
C5_Witness ==
  /\ Composed
  /\ resp.include
  /\ \E k \in 1..Len(resp.body) : Arrival(resp.body[k]) > resp.began

\* C7: the composer attaches no observations when include_user_observations
\* is false, and otherwise exactly the store's query result for the requested
\* coordinate and metric, max age = hours and radius 75 km, in timestamp
\* order; the points are the fetcher's result either way.
C7_Composer ==
  Composed =>
    /\ resp.points = FetchHourlyData(upstream.payload, resp.at, resp.hours).points
    /\ ~resp.include => resp.body = <<>>
    /\ resp.include =>
         LET expected == {r \in Stored : /\ r.metric = resp.metric
                                         /\ InWindow(r)
                                         /\ Near(r, 75000)}
         IN /\ {resp.body[k] : k \in 1..Len(resp.body)} = expected
            /\ Len(resp.body) = Cardinality(expected)
            /\ \A j, k \in 1..Len(resp.body) :
                 j < k =>
                   \/ resp.body[j].timestamp.t < resp.body[k].timestamp.t
                   \/ /\ resp.body[j].timestamp.t = resp.body[k].timestamp.t
                      /\ Arrival(resp.body[j]) < Arrival(resp.body[k])

\* C7 witness: a response with observations attached while a stored record of
\* the same metric, inside the window but 85 km away, is left out.
C7_Witness ==
  /\ Composed
  /\ resp.include
  /\ resp.body # <<>>
  /\ \E r \in Stored :
       /\ r.metric = resp.metric /\ InWindow(r)
       /\ Near(r, ListRadiusM) /\ ~InBody(r)

====
